---- MODULE Spec2Model ----
(***************************************************************************)
(* A model of MDT's sampling orchestration (mdt/model_sampling.py):        *)
(* ModelSampling (argument validation, device resolution) and              *)
(* SampleSingleModel (the resumability gate, the initialization resolver   *)
(* and the call into the processing strategy), run as a sequence of        *)
(* invocations over one file system; of the parameter grids, the Rician    *)
(* noise and the noise estimator of mdt/simulations.py; and of the         *)
(* undo/redo controller of mdt/gui/maps_visualizer/main.py. Each part has  *)
(* its own variables and specifications.                                   *)
(***************************************************************************)
EXTENDS Integers, Sequences, FiniteSets, TLC

(***************************************************************************)
(* Bounds of the model.                                                    *)
(***************************************************************************)
\* how many orchestrator invocations one behaviour makes
MaxCalls == 2
\* how many devices get_cl_devices() enumerates
NumDevices == 2

(***************************************************************************)
(* The small sets the inputs are drawn from.                               *)
(***************************************************************************)
\* the volume maps the model is expected to write under <output_path>/volume_maps/
ExpectedMaps == {"m1", "m2"}
\* the parameter names an initialization map can hold
ParamNames == {"p1"}
\* what a value of an initialize_using dict can be
ValueKinds == {"str", "scalar", "array"}
\* the two folders an initialization can be read from
FallbackFolder == "output_folder/model_name"
GivenFolder == "initialize_using"

\* cl_device_ind before line 86: None, one integer, or an iterable of integers
DeviceIndexRange == (0 - (NumDevices + 1)) .. NumDevices
NoDevices == [kind |-> "none", inds |-> <<>>]
IntDevice(i) == [kind |-> "int", inds |-> <<i>>]
ListDevices(s) == [kind |-> "list", inds |-> s]

\* initialize_using: None, a folder name, or a dict of key -> value
UsingNone == [kind |-> "none", items |-> {}]
UsingStr == [kind |-> "str", items |-> {}]
UsingDict(items) == [kind |-> "dict", items |-> items]
\* the dicts over ParamNames: every key has one value
Dicts == {d \in SUBSET (ParamNames \X ValueKinds) :
            \A x \in d, y \in d : x[1] = y[1] => x = y}
InitializeUsingSpace == {UsingNone, UsingStr} \cup {UsingDict(d) : d \in Dicts}

\* the arguments of one invocation; layer says which class the caller constructs.
\* by_name, double_precision, sampler and cl_device_ind are arguments of
\* ModelSampling only.
ArgSpace(cascades, names, precisions, samplers, devs, protocols, recalcs, inits, usings) ==
    [layer : {"ModelSampling"}, cascade : cascades, by_name : names,
     sufficient : protocols, recalculate : recalcs, cl_device_ind : devs,
     double_precision : precisions, initialize : inits,
     initialize_using : usings, sampler : samplers]
    \cup
    [layer : {"SampleSingleModel"}, cascade : cascades, by_name : {FALSE},
     sufficient : protocols, recalculate : recalcs, cl_device_ind : {NoDevices},
     double_precision : {TRUE}, initialize : inits,
     initialize_using : usings, sampler : {"given"}]

\* every device selection: None, an integer, a list of up to two integers
AllDevices ==
    {NoDevices, ListDevices(<<>>)}
    \cup {IntDevice(i) : i \in DeviceIndexRange}
    \cup {ListDevices(<<i>>) : i \in DeviceIndexRange}
    \cup {ListDevices(<<i, j>>) : i \in DeviceIndexRange, j \in DeviceIndexRange}

\* the runs of a composite model with a sufficient protocol: every gate and
\* initialization argument
RunArgs ==
    ArgSpace({FALSE}, {FALSE}, {TRUE}, {"given"},
             {NoDevices, IntDevice(0), IntDevice(NumDevices)},
             {TRUE}, BOOLEAN, BOOLEAN, InitializeUsingSpace)
\* the constructions: every model kind, protocol and constructor argument
EntryArgs ==
    ArgSpace(BOOLEAN, BOOLEAN, BOOLEAN, {"none", "given"},
             {NoDevices, IntDevice(0)}, BOOLEAN, BOOLEAN, BOOLEAN, {UsingNone})
\* the device selections
DeviceArgs ==
    ArgSpace({FALSE}, {FALSE}, {TRUE}, {"given"}, AllDevices,
             {TRUE}, BOOLEAN, {TRUE}, {UsingNone})

\* the initialization mappings: dicts over two keys, every kind of value
MappingKeys == {"p1", "p2"}
Mappings == {d \in SUBSET (MappingKeys \X ValueKinds) :
                \A x \in d, y \in d : x[1] = y[1] => x = y}
MappingArgs ==
    ArgSpace({FALSE}, {FALSE}, {TRUE}, {"given"}, {NoDevices},
             {TRUE}, BOOLEAN, BOOLEAN, {UsingDict(d) : d \in Mappings})

NoArgs ==
    [layer |-> "none", cascade |-> FALSE, by_name |-> FALSE, sufficient |-> TRUE,
     recalculate |-> FALSE, cl_device_ind |-> NoDevices, double_precision |-> TRUE,
     initialize |-> TRUE, initialize_using |-> UsingNone, sampler |-> "given"]

(***************************************************************************)
(* State.                                                                  *)
(***************************************************************************)
VARIABLES
    callNo,     \* invocations started so far
    pc,         \* where the current invocation is
    args,       \* the arguments of the current invocation
    err,        \* the exception the invocation raised, "none" if none
    result,     \* what run returned: "none", "loaded" or "sampled"
    model,      \* the model object: double_precision, problem data, initial parameters
    ms,         \* the ModelSampling object's fields
    strategy,   \* the processing strategy: constructed, runs, the recalculate it got
    disk,       \* <output_folder>/<model_name>/samples, its volume maps, the init folders
    entry,      \* the disk when the invocation started
    log,        \* the calls the invocation made, in order
    reads,      \* the folders and files the invocation read initialization maps from
    prev,       \* about the previous invocation: same arguments, did it sample,
                \* did it fail and with which error, was the marker absent at
                \* its start or deleted by it
    grid,       \* the arguments of a call of the parameter grid functions
    permuted,   \* what permutate_parameters and get_permuted_indices returned
    noise,      \* the arguments and the result of estimate_noise_std
    rician,     \* the arguments and the result of make_rician_distributed
    ctrl,       \* the QtController: its stacks, its configuration, its emissions
    ops         \* the calls made on the controller, with the stacks before each

samplingVars == <<callNo, pc, args, err, result, model, ms, strategy, disk, entry, log,
                  reads, prev>>
gridVars == <<grid, permuted>>
noiseVars == <<noise>>
ricianVars == <<rician>>
controllerVars == <<ctrl, ops>>
vars == <<samplingVars, gridVars, noiseVars, ricianVars, controllerVars>>
\* what the sampling, the grid functions and the noise estimator leave alone
notSampling == <<gridVars, noiseVars, ricianVars, controllerVars>>
notGrid == <<samplingVars, noiseVars, ricianVars, controllerVars>>
notNoise == <<samplingVars, gridVars, ricianVars, controllerVars>>
notRician == <<samplingVars, gridVars, noiseVars, controllerVars>>
notController == <<samplingVars, gridVars, noiseVars, ricianVars>>

FreshModel == [double_precision |-> <<>>, problem_data |-> FALSE,
               initial_parameters |-> <<>>]
FreshMS == [sampler |-> "none", tmp_results_dir |-> <<>>,
            cl_device_indices |-> NoDevices, cl_envs |-> <<>>,
            sampler_cl_environments |-> <<>>]
FreshStrategy == [constructed |-> FALSE, runs |-> 0, recalculate |-> <<>>]

(***************************************************************************)
(* ModelSampling.__init__ and the device resolution of ModelSampling.run.  *)
(***************************************************************************)
\* isinstance(model, DMRICascadeModelInterface)
is_cascade(a) == a.cascade

\* lines 86-87: a selection that is not None and not iterable becomes a list
normalize_cl_device_ind(sel) ==
    IF sel.kind = "int" THEN ListDevices(sel.inds) ELSE sel

\* Python's list indexing all_devices[ind] on a list of n devices: <<device>>,
\* or <<>> for an IndexError. A negative index counts from the end of the list.
list_getitem(n, ind) ==
    IF 0 <= ind /\ ind < n THEN <<ind>>
    ELSE IF 0 - n <= ind /\ ind < 0 THEN <<n + ind>>
    ELSE <<>>

\* [all_devices[ind] for ind in self._cl_device_indices]
cl_envs_of(inds) ==
    IF \E i \in DOMAIN inds : list_getitem(NumDevices, inds[i]) = <<>>
    THEN [raised |-> TRUE, envs |-> <<>>]
    ELSE [raised |-> FALSE,
          envs |-> [i \in DOMAIN inds |-> list_getitem(NumDevices, inds[i])[1]]]

\* model.is_protocol_sufficient(problem_data.protocol)
is_protocol_sufficient(a) == a.sufficient

\* ModelSampling.__init__, were the cascade model rejected where the protocol is
\* checked, after the fields are set
ModelSampling_init_late_check(a) ==
    LET resolved == IF a.by_name THEN <<"get_model">> ELSE <<>>
        built == [sampler |-> IF a.sampler = "none" THEN "default" ELSE "given",
                  tmp_results_dir |-> <<"resolved">>,
                  cl_device_indices |-> normalize_cl_device_ind(a.cl_device_ind),
                  cl_envs |-> <<>>, sampler_cl_environments |-> <<>>]
        calls == resolved \o <<"set_double_precision", "get_temporary_results_dir">>
                   \o (IF a.sampler = "none" THEN <<"MetaSamplerBuilder">> ELSE <<>>)
    IN  [err |-> IF is_cascade(a) THEN "ValueError"
                 ELSE IF is_protocol_sufficient(a) THEN "none"
                 ELSE "InsufficientProtocolError",
         model |-> [FreshModel EXCEPT !.double_precision = <<a.double_precision>>],
         ms |-> built,
         log |-> calls]

\* ModelSampling.__init__, lines 63-93: the exception it raises, the fields it has
\* set by then and the calls it has made
ModelSampling_init(a) ==
    LET resolved == IF a.by_name THEN <<"get_model">> ELSE <<>>
        built == [sampler |-> IF a.sampler = "none" THEN "default" ELSE "given",
                  tmp_results_dir |-> <<"resolved">>,
                  cl_device_indices |-> normalize_cl_device_ind(a.cl_device_ind),
                  cl_envs |-> <<>>, sampler_cl_environments |-> <<>>]
        calls == resolved \o <<"set_double_precision", "get_temporary_results_dir">>
                   \o (IF a.sampler = "none" THEN <<"MetaSamplerBuilder">> ELSE <<>>)
    IN  IF is_cascade(a)
        THEN [err |-> "ValueError", model |-> FreshModel, ms |-> FreshMS,
              log |-> resolved]
        ELSE IF is_protocol_sufficient(a)
        THEN [err |-> "none",
              model |-> [FreshModel EXCEPT !.double_precision = <<a.double_precision>>],
              ms |-> built,
              log |-> calls \o <<"is_protocol_sufficient">>]
        ELSE [err |-> "InsufficientProtocolError",
              model |-> [FreshModel EXCEPT !.double_precision = <<a.double_precision>>],
              ms |-> built,
              log |-> calls \o <<"is_protocol_sufficient", "get_protocol_problems">>]

\* SampleSingleModel.__init__, were the protocol checked by ModelSampling alone
SampleSingleModel_init_unchecked(a) ==
    [err |-> "none", log |-> <<>>]

\* SampleSingleModel.__init__, lines 157-173: the exception it raises
SampleSingleModel_init(a) ==
    IF is_protocol_sufficient(a)
    THEN [err |-> "none", log |-> <<"is_protocol_sufficient">>]
    ELSE [err |-> "InsufficientProtocolError",
          log |-> <<"is_protocol_sufficient", "get_protocol_problems">>]

(***************************************************************************)
(* SampleSingleModel: the resumability gate and the initialization         *)
(* resolver.                                                               *)
(***************************************************************************)
\* model_output_exists(model, output_path + '/volume_maps/'): every expected
\* volume map is there
model_output_exists(d) == d.samples /\ ExpectedMaps \subseteq d.volume_maps

rmtree_model_folder(d) == [d EXCEPT !.samples = FALSE, !.volume_maps = {}, !.fallback = {}]

\* shutil.rmtree(self._output_path)
rmtree(d) == [d EXCEPT !.samples = FALSE, !.volume_maps = {}]

makedirs_with_volume_maps(d) == [d EXCEPT !.samples = TRUE, !.volume_maps = ExpectedMaps]

\* os.makedirs(self._output_path)
makedirs(d) == [d EXCEPT !.samples = TRUE]

\* the gate, were the completeness marker never consulted
gate_without_marker(recalculate, d) ==
    IF recalculate /\ d.samples
    THEN [next |-> "fresh", disk |-> rmtree(d), log |-> <<"exists", "rmtree">>]
    ELSE [next |-> "fresh", disk |-> d, log |-> <<"exists">>]

\* the gate, were the marker consulted before the recalculate flag
gate_marker_first(recalculate, d) ==
    IF model_output_exists(d)
    THEN [next |-> "return", disk |-> d,
          log |-> <<"model_output_exists", "load_samples">>]
    ELSE IF recalculate /\ d.samples
    THEN [next |-> "fresh", disk |-> rmtree(d), log |-> <<"exists", "rmtree">>]
    ELSE [next |-> "fresh", disk |-> d, log |-> <<"exists">>]

\* the gate, were an incomplete output deleted without recalculate
gate_deleting_partial(recalculate, d) ==
    IF ~recalculate /\ model_output_exists(d)
    THEN [next |-> "return", disk |-> d,
          log |-> <<"model_output_exists", "load_samples">>]
    ELSE IF d.samples
    THEN [next |-> "fresh", disk |-> rmtree(d), log |-> <<"exists", "rmtree">>]
    ELSE [next |-> "fresh", disk |-> d, log |-> <<"exists">>]

\* the gate, were the test of the marker negated
gate_inverted(recalculate, d) ==
    IF recalculate
    THEN IF d.samples
         THEN [next |-> "fresh", disk |-> rmtree(d), log |-> <<"exists", "rmtree">>]
         ELSE [next |-> "fresh", disk |-> d, log |-> <<"exists">>]
    ELSE IF ~model_output_exists(d)
         THEN [next |-> "return", disk |-> d,
               log |-> <<"model_output_exists", "load_samples">>]
         ELSE [next |-> "fresh", disk |-> d, log |-> <<"model_output_exists">>]

\* lines 179-186: "return" (load the persisted samples), or "fresh" with the disk
\* as the gate leaves it
gate(recalculate, d) ==
    IF recalculate
    THEN IF d.samples
         THEN [next |-> "fresh", disk |-> rmtree(d),
               log |-> <<"exists", "rmtree">>]
         ELSE [next |-> "fresh", disk |-> d, log |-> <<"exists">>]
    ELSE IF model_output_exists(d)
         THEN [next |-> "return", disk |-> d,
               log |-> <<"model_output_exists", "load_samples">>]
         ELSE [next |-> "fresh", disk |-> d, log |-> <<"model_output_exists">>]

ensure_output_path_skipped(d) == [disk |-> d, log |-> <<"isdir">>]

\* lines 188-189
ensure_output_path(d) ==
    IF ~d.samples THEN [disk |-> makedirs(d), log |-> <<"isdir", "makedirs">>]
    ELSE [disk |-> d, log |-> <<"isdir">>]

\* create_roi(data, mask) of one volume or array: its values at the mask's voxels
masked(data) == IF data = "volume" THEN "masked volume" ELSE "masked array"

\* create_roi(Nifti.read_volume_maps(folder), mask): one masked volume per map
create_roi(names) == {<<k, masked("volume")>> : k \in names}

dict_value_masking_scalars(kind) ==
    IF kind = "str" THEN masked("volume") ELSE masked("array")

\* lines 217-223: the value a dict entry resolves to
dict_value(kind) ==
    IF kind = "str" THEN masked("volume")
    ELSE IF kind = "scalar" THEN "scalar"
    ELSE masked("array")

\* the maps, were a given folder looked up under the fallback folder
initialization_maps_str_fallback(using, d) ==
    IF using.kind \in {"none", "str"}
    THEN [maps |-> create_roi(d.fallback), read |-> {FallbackFolder}]
    ELSE [maps |-> {<<x[1], dict_value(x[2])>> : x \in using.items},
          read |-> {x[1] : x \in {y \in using.items : y[2] = "str"}}]

\* lines 203-223: the maps and what was read to get them
initialization_maps(using, d) ==
    IF using.kind = "none"
    THEN [maps |-> create_roi(d.fallback), read |-> {FallbackFolder}]
    ELSE IF using.kind = "str"
    THEN [maps |-> create_roi(d.given), read |-> {GivenFolder}]
    ELSE [maps |-> {<<x[1], dict_value(x[2])>> : x \in using.items},
          read |-> {x[1] : x \in {y \in using.items : y[2] = "str"}}]

\* the resolver, were an empty result returned instead of raised
get_initialization_params_silent(initialize, using, d) ==
    IF initialize
    THEN initialization_maps(using, d) @@ [raised |-> FALSE]
    ELSE [raised |-> FALSE, maps |-> {}, read |-> {}]

\* the resolver, were the initialize flag not consulted
get_initialization_params_unflagged(initialize, using, d) ==
    LET r == initialization_maps(using, d)
    IN  IF r.maps = {}
        THEN [raised |-> TRUE, maps |-> {}, read |-> r.read]
        ELSE [raised |-> FALSE, maps |-> r.maps, read |-> r.read]

\* _get_initialization_params, lines 200-231
get_initialization_params(initialize, using, d) ==
    IF initialize
    THEN LET r == initialization_maps(using, d)
         IN  IF r.maps = {}
             THEN [raised |-> TRUE, maps |-> {}, read |-> r.read]
             ELSE [raised |-> FALSE, maps |-> r.maps, read |-> r.read]
    ELSE [raised |-> FALSE, maps |-> {}, read |-> {}]

\* the wrapper, were it to suppress what its block raises
logging_suppressing(e) == [err |-> "none", log |-> <<"logging_end">>]

\* _logging, lines 233-243, around a block that raised e ("none": it returned):
\* the end of the run is logged after the yield only when the block returned,
\* and what the block raised leaves the with statement
logging(e) == [err |-> e, log |-> IF e = "none" THEN <<"logging_end">> ELSE <<>>]

(***************************************************************************)
(* The processing strategy (mdt.processing_strategies): it returns with    *)
(* every expected volume map written, or fails and leaves an incomplete    *)
(* set; what was there before is kept.                                     *)
(***************************************************************************)
strategy_outcomes(d) ==
    {[ok |-> TRUE, disk |-> [d EXCEPT !.volume_maps = ExpectedMaps]]}
    \cup
    {[ok |-> FALSE, disk |-> [d EXCEPT !.volume_maps = s]] :
        s \in {t \in SUBSET ExpectedMaps : d.volume_maps \subseteq t /\ t # ExpectedMaps}}

(***************************************************************************)
(* Initial states: nothing has been called; the samples directory is       *)
(* absent, or present with any part of the volume maps; each of the two    *)
(* initialization folders holds any set of maps.                           *)
(***************************************************************************)
Disks ==
    {d \in [samples : BOOLEAN, volume_maps : SUBSET ExpectedMaps,
            fallback : SUBSET ParamNames, given : SUBSET ParamNames] :
        ~d.samples => d.volume_maps = {}}

(***************************************************************************)
(* The parameter grids of mdt/simulations.py: permutate_parameters (lines  *)
(* 20-57) and get_permuted_indices (lines 60-85). Numbers are exact        *)
(* rationals <<numerator, denominator>> in lowest terms; parameter indices *)
(* count from 0 as in the code, sequences from 1.                          *)
(***************************************************************************)
\* how many parameters the model has: len(lower_bounds)
NumParams == 3
\* the largest number of grid points of one parameter
MaxGrid == 3

Abs(n) == IF n < 0 THEN 0 - n ELSE n
RECURSIVE Gcd(_, _)
Gcd(a, b) == IF b = 0 THEN a ELSE Gcd(b, a % b)
\* the number n / d, d > 0, in lowest terms
Rat(n, d) == LET g == Gcd(Abs(n), d) IN <<n \div g, d \div g>>
Whole(n) == Rat(n, 1)
RatMinus(x, y) == Rat(x[1] * y[2] - y[1] * x[2], x[2] * y[2])

\* the default values and the bounds of every parameter: the values of the
\* three-parameter example, bounds that descend, and bounds that coincide
ParamTables ==
    {[default_values |-> [i \in 1..NumParams |-> i],
      lower_bounds |-> [i \in 1..NumParams |-> IF i = NumParams THEN i ELSE 0],
      upper_bounds |-> [i \in 1..NumParams |-> IF i = NumParams THEN i ELSE 2 * i]],
     [default_values |-> [i \in 1..NumParams |-> 0],
      lower_bounds |-> [i \in 1..NumParams |-> 2 * i + 1],
      upper_bounds |-> [i \in 1..NumParams |-> 1]],
     [default_values |-> [i \in 1..NumParams |-> 5],
      lower_bounds |-> [i \in 1..NumParams |-> 5],
      upper_bounds |-> [i \in 1..NumParams |-> 5]]}
\* var_params_ind: up to three distinct parameter indices, in any order
ParamIndices == 0 .. (NumParams - 1)
VaryingLists ==
    {s \in {<<>>} \cup {<<i>> : i \in ParamIndices}
            \cup {<<i, j>> : i \in ParamIndices, j \in ParamIndices}
            \cup {<<i, j, k>> : i \in ParamIndices, j \in ParamIndices,
                                k \in ParamIndices} :
        \A x \in DOMAIN s, y \in DOMAIN s : s[x] = s[y] => x = y}
\* grid_size: one integer, or a list of up to three integers
GridPoints == 1 .. MaxGrid
GridInt(g) == [kind |-> "int", n |-> g, sizes |-> <<>>]
GridList(s) == [kind |-> "list", n |-> 0, sizes |-> s]
GridSizes ==
    {GridInt(g) : g \in GridPoints}
    \cup {GridList(<<>>)} \cup {GridList(<<g>>) : g \in GridPoints}
    \cup {GridList(<<g, h>>) : g \in GridPoints, h \in GridPoints}
    \cup {GridList(<<g, h, i>>) : g \in GridPoints, h \in GridPoints, i \in GridPoints}
GridCalls ==
    [table : ParamTables, var_params_ind : VaryingLists, grid_size : GridSizes]
NoGridCall ==
    [table |-> [default_values |-> <<>>, lower_bounds |-> <<>>, upper_bounds |-> <<>>],
     var_params_ind |-> <<>>, grid_size |-> GridList(<<>>)]

linspace_without_endpoint(start, stop, num) ==
    [i \in 1..num |-> Rat(start * num + (i - 1) * (stop - start), num)]

\* np.linspace(start, stop, num): num points from start to stop, the one point
\* of num = 1 being start
linspace(start, stop, num) ==
    [i \in 1..num |->
        IF num = 1 THEN Whole(start)
        ELSE Rat(start * (num - 1) + (i - 1) * (stop - start), num - 1)]
\* np.arange(0, num)
arange(num) == [i \in 1..num |-> i - 1]
\* np.tile(row, reps) along the last axis: the row, reps times over
tile(row, reps) ==
    [k \in 1..(Len(row) * reps) |-> row[((k - 1) % Len(row)) + 1]]
repeat_cycling(values, repeats) ==
    [k \in 1..(Len(values) * repeats) |-> values[((k - 1) % Len(values)) + 1]]

\* np.repeat(values, repeats): every value repeats times in a row
repeat(values, repeats) ==
    [k \in 1..(Len(values) * repeats) |-> values[((k - 1) \div repeats) + 1]]
\* np.transpose of a matrix given as the sequence of its rows; a matrix of
\* shape (0, 1) transposes to one empty row
transpose(m) ==
    LET width == IF m = <<>> THEN 1 ELSE Len(m[1])
    IN [k \in 1..width |-> [p \in DOMAIN m |-> m[p][k]]]

GridOk(value) == [err |-> "none", value |-> value]
GridError(e) == [err |-> e, value |-> <<>>]

\* lines 44-45: a number becomes one grid size per varying parameter
broadcast_grid_size(var_params_ind, grid_size) ==
    IF grid_size.kind = "int"
    THEN [i \in 1..Len(var_params_ind) |-> grid_size.n]
    ELSE grid_size.sizes

\* line 47: np.reshape(default_values, [len(lower_bounds), 1])
reshape_defaults(t) ==
    [p \in 1..Len(t.lower_bounds) |-> <<Whole(t.default_values[p])>>]

\* lines 51-54, one turn of the loop: tile the matrix, then overwrite the row of
\* the varying parameter with its grid values, each repeat_mult times in a row
permutate_step(t, matrix, params_ind, g, repeat_mult) ==
    LET tiled == [p \in DOMAIN matrix |-> tile(matrix[p], g)]
        values == linspace(t.lower_bounds[params_ind + 1],
                           t.upper_bounds[params_ind + 1], g)
    IN [tiled EXCEPT ![params_ind + 1] = repeat(values, repeat_mult)]

\* lines 50-55: grid_size[linear_ind] raises IndexError past the end of the list
RECURSIVE permutate_loop(_, _, _, _, _)
permutate_loop(c, sizes, matrix, repeat_mult, linear_ind) ==
    IF linear_ind > Len(c.var_params_ind) THEN GridOk(transpose(matrix))
    ELSE IF linear_ind > Len(sizes) THEN GridError("IndexError")
    ELSE permutate_loop(c, sizes,
            permutate_step(c.table, matrix, c.var_params_ind[linear_ind],
                           sizes[linear_ind], repeat_mult),
            repeat_mult * sizes[linear_ind], linear_ind + 1)

permutate_parameters_from_lower_bounds(c) ==
    permutate_loop(c, broadcast_grid_size(c.var_params_ind, c.grid_size),
                   [p \in 1..Len(c.table.lower_bounds) |->
                        <<Whole(c.table.lower_bounds[p])>>], 1, 1)

\* permutate_parameters(var_params_ind, default_values, lower_bounds,
\* upper_bounds, grid_size): the matrix as the sequence of its rows
permutate_parameters(c) ==
    permutate_loop(c, broadcast_grid_size(c.var_params_ind, c.grid_size),
                   reshape_defaults(c.table), 1, 1)

indices_step_cycling(indices, ind, g, repeat_mult) ==
    LET tiled == [p \in DOMAIN indices |-> tile(indices[p], g)]
    IN [tiled EXCEPT ![ind] = tile(arange(g), repeat_mult)]

\* lines 81-82, one turn of the loop
indices_step(indices, ind, g, repeat_mult) ==
    LET tiled == [p \in DOMAIN indices |-> tile(indices[p], g)]
    IN [tiled EXCEPT ![ind] = repeat(arange(g), repeat_mult)]

\* lines 80-83: grid_size[ind] raises TypeError on a number and IndexError past
\* the end of a list
RECURSIVE indices_loop(_, _, _, _, _)
indices_loop(nmr_var_params, grid_size, indices, repeat_mult, ind) ==
    IF ind > nmr_var_params THEN GridOk(transpose(indices))
    ELSE IF grid_size.kind = "int" THEN GridError("TypeError")
    ELSE IF ind > Len(grid_size.sizes) THEN GridError("IndexError")
    ELSE indices_loop(nmr_var_params, grid_size,
            indices_step(indices, ind, grid_size.sizes[ind], repeat_mult),
            repeat_mult * grid_size.sizes[ind], ind + 1)

\* get_permuted_indices(nmr_var_params, grid_size)
get_permuted_indices(nmr_var_params, grid_size) ==
    indices_loop(nmr_var_params, grid_size,
                 [p \in 1..nmr_var_params |-> <<0>>], 1, 1)

(***************************************************************************)
(* The noise estimator of mdt/simulations.py: get_unweighted_volumes       *)
(* (lines 168-182) and estimate_noise_std (lines 185-223). A signal matrix *)
(* is the sequence of its voxels, a voxel the sequence of its volumes.     *)
(***************************************************************************)
\* the largest batch: voxels in simulated_noisy_signals
MaxVoxels == 2
\* the largest number of volumes of the protocol
MaxVolumes == 3

SignalValues == {1, 3}
S0Values == {1, 2}
\* the protocol argument: a Protocol object, or the path of a protocol file;
\* volumes says of every volume of the protocol whether it is unweighted
ProtocolObject(volumes) == [kind |-> "Protocol", volumes |-> volumes]
ProtocolPath(volumes) == [kind |-> "str", volumes |-> volumes]
\* the calls: a signal per voxel and volume, the protocol, and the S0 the
\* optimizer fits per voxel
NoiseCalls ==
    UNION {[signals : [1..v -> [1..m -> SignalValues]],
            protocol : {ProtocolObject(u) : u \in [1..m -> BOOLEAN]}
                       \cup {ProtocolPath(u) : u \in [1..m -> BOOLEAN]},
            s0 : [1..v -> S0Values],
            estimate : {<<>>}] : v \in 1..MaxVoxels, m \in 1..MaxVolumes}
NoNoiseCall ==
    [signals |-> <<>>, protocol |-> ProtocolObject(<<>>), s0 |-> <<>>, estimate |-> <<>>]

\* mdt.load_protocol(path): the protocol the file holds
load_protocol(protocol) == ProtocolObject(protocol.volumes)

\* protocol.get_unweighted_indices(): the positions of the unweighted volumes
RECURSIVE get_unweighted_indices(_)
get_unweighted_indices(protocol) ==
    IF protocol = <<>> THEN <<>>
    ELSE LET front == get_unweighted_indices(SubSeq(protocol, 1, Len(protocol) - 1))
         IN IF protocol[Len(protocol)] THEN Append(front, Len(protocol)) ELSE front

\* get_unweighted_volumes: signals[:, unweighted_indices]
get_unweighted_volumes(signals, protocol) ==
    LET unweighted_indices == get_unweighted_indices(protocol)
    IN [v \in DOMAIN signals |->
            [j \in DOMAIN unweighted_indices |-> signals[v][unweighted_indices[j]]]]

RECURSIVE np_sum(_)
np_sum(values) ==
    IF values = <<>> THEN 0 ELSE values[1] + np_sum(Tail(values))

\* A real number that is a sum of square roots of rationals is held exactly,
\* as the set of its terms <<m, q>> for q * sqrt(m), m square-free and q a
\* rational other than 0; the square roots of different square-free numbers
\* are linearly independent, so two numbers are equal when their sets are.
\* the largest k whose square divides n, n >= 1
SquarePart(n) ==
    CHOOSE k \in 1..n : /\ n % (k * k) = 0
                        /\ \A j \in (k + 1)..n : n % (j * j) # 0
\* np.sqrt of the rational r >= 0: sqrt(n / d) = (k / d) * sqrt(m), n * d = k^2 * m
np_sqrt_rational(r) ==
    IF r[1] = 0 THEN {}
    ELSE LET k == SquarePart(r[1] * r[2])
         IN {<<(r[1] * r[2]) \div (k * k), Rat(k, r[2])>>}
\* np.mean of a sequence of such numbers: the coefficients of every sqrt(m)
\* are added up and divided by the length
np_mean(values) ==
    LET radicands == {t[1] : t \in UNION {values[i] : i \in DOMAIN values}}
        coefficient(x, m) ==
            IF \E t \in x : t[1] = m THEN (CHOOSE t \in x : t[1] = m)[2] ELSE Whole(0)
        plus(x, y) == Rat(x[1] * y[2] + y[1] * x[2], x[2] * y[2])
        RECURSIVE total(_, _)
        total(rest, m) ==
            IF rest = <<>> THEN Whole(0)
            ELSE plus(coefficient(rest[1], m), total(Tail(rest), m))
    IN {<<m, Rat(total(values, m)[1], total(values, m)[2] * Len(values))>> :
            m \in radicands}

\* lines 199-200: a protocol given as a string is loaded; lines 206 and
\* 214-217: the residuals of the unweighted signals
baseline_images(c) ==
    LET protocol == IF c.protocol.kind = "str" THEN load_protocol(c.protocol)
                    ELSE c.protocol
        unweighted_signals == get_unweighted_volumes(c.signals, protocol.volumes)
        s0_estimate == c.s0
    IN [v \in DOMAIN unweighted_signals |->
            [j \in DOMAIN unweighted_signals[v] |->
                unweighted_signals[v][j] - s0_estimate[v]]]

\* line 219: np.sum(np.power(baseline_images, 2), axis=1)
sum_of_squares(c) ==
    [v \in DOMAIN baseline_images(c) |->
        np_sum([j \in DOMAIN baseline_images(c)[v] |->
                    baseline_images(c)[v][j] * baseline_images(c)[v][j]])]

\* line 220: sum_of_squares / baseline_images.shape[0]
mean_squares(c) ==
    [v \in DOMAIN sum_of_squares(c) |->
        Rat(sum_of_squares(c)[v], Len(baseline_images(c)))]

\* line 222: np.sqrt(mean_squares / 2)
sigmas(c) ==
    [v \in DOMAIN mean_squares(c) |->
        np_sqrt_rational(Rat(mean_squares(c)[v][1], mean_squares(c)[v][2] * 2))]

\* estimate_noise_std(simulated_noisy_signals, protocol), lines 185-223: the
\* number it returns, np.mean(sigmas)
estimate_noise_std(c) == np_mean(sigmas(c))

(***************************************************************************)
(* make_rician_distributed of mdt/simulations.py (lines 108-124). The      *)
(* draws of np.random.normal are inputs; signals, noise level and draws    *)
(* are integers, so that x and y are integers.                             *)
(***************************************************************************)
\* the largest number of signals of one call
MaxSignals == 2

SignalLevels == 0 .. 3
NoiseLevels == 0 .. 2
NormalDraws == {0 - 1, 0, 1}
\* the calls: the signals, the noise level and the two draws per signal
RicianCalls ==
    UNION {[signals : [1..n -> SignalLevels], noise_level : NoiseLevels,
            normal_x : [1..n -> NormalDraws], normal_y : [1..n -> NormalDraws],
            output : {<<>>}] : n \in 1..MaxSignals}
NoRicianCall ==
    [signals |-> <<>>, noise_level |-> 0, normal_x |-> <<>>, normal_y |-> <<>>,
     output |-> <<>>]

\* np.power(values, 2)
np_power_2(values) == [i \in DOMAIN values |-> values[i] * values[i]]
\* np.sqrt(values, out): the second positional argument of a ufunc is the
\* array the result is written to and returned; what it held is overwritten.
\* The values here are squares of integers.
np_sqrt(values, out) ==
    [i \in DOMAIN out |-> CHOOSE r \in 0..values[i] : r * r = values[i]]

\* lines 122-124; astype(signals.dtype) keeps the integers as they are
make_rician_distributed(c) ==
    LET x == [i \in DOMAIN c.signals |-> c.noise_level * c.normal_x[i] + c.signals[i]]
        y == [i \in DOMAIN c.signals |-> c.noise_level * c.normal_y[i]]
    IN [x |-> x, y |-> y, value |-> np_sqrt(np_power_2(x), np_power_2(y))]

(***************************************************************************)
(* The controller of the maps visualizer, mdt/gui/maps_visualizer/main.py: *)
(* QtController (lines 72-134) and the slots MainWindow connects to its    *)
(* signals (lines 29-31, 44-69). An action is a record of its number and   *)
(* its class; a configuration is named after what produced it.             *)
(***************************************************************************)
\* how many calls the environment makes on one controller
MaxOps == 4

UserAction(n) == [id |-> n, class |-> "Action"]
FromDictAction(n) == [id |-> n, class |-> "FromDictAction"]
\* action.apply(config) and action.unapply()
apply(action) == <<"applied", action.id>>
unapply(action) == <<"unapplied", action.id>>
\* GeneralConfiguration(), with maps_to_show preselected (lines 92-93)
DefaultConfig == <<"default", 0>>
GivenConfig == <<"given", 0>>

\* QtController.__init__, lines 77-82; window: a MainWindow was constructed
\* on the controller. created counts the actions made so far, new_config and
\* new_data the emissions of the last call.
NewController(window) ==
    [window |-> window, actions_history |-> <<>>, redoable_actions |-> <<>>,
     current_config |-> DefaultConfig, created |-> 0,
     new_config |-> 0, new_data |-> 0]
NoController == NewController(FALSE)

\* _apply_config, lines 127-134, when no slot changes the controller
apply_config_unheard(c, new_config) ==
    [c EXCEPT !.current_config = new_config, !.new_config = @ + 1]

\* add_action, lines 106-110, when no slot changes the controller
add_action_unheard(c, action) ==
    apply_config_unheard([c EXCEPT !.actions_history = Append(@, action),
                                   !.redoable_actions = <<>>,
                                   !.created = @ + 1], apply(action))

\* MainWindow._config_from_string, lines 58-69: the text parses and becomes a
\* FromDictAction, or yaml raises a ParserError and nothing is done. The flag
\* updating_config_from_string keeps set_new_config from changing the text
\* again.
config_from_string(c, parses) ==
    IF parses THEN add_action_unheard(c, FromDictAction(c.created + 1)) ELSE c

\* MainWindow.set_new_config, lines 52-56, called with the flag unset:
\* setPlainText changes the text, and textChanged calls _config_from_string
set_new_config(c, parses) ==
    IF c.window THEN config_from_string(c, parses) ELSE c

\* _apply_config, lines 127-134: new_config.emit calls the connected slot
apply_config(c, new_config, parses) ==
    set_new_config(apply_config_unheard(c, new_config), parses)

\* the emissions of one call are counted from 0
Called(c) == [c EXCEPT !.new_config = 0, !.new_data = 0]

\* set_data, lines 84-95; new_data.emit calls MainWindow.set_new_data, which
\* calls set_new_config (lines 44-50)
set_data(c, config, parses) ==
    set_new_config([Called(c) EXCEPT !.actions_history = <<>>,
                                     !.redoable_actions = <<>>,
                                     !.current_config =
                                        IF config = <<>> THEN DefaultConfig ELSE config[1],
                                     !.new_data = 1], parses)

\* set_config, lines 100-101
set_config(c, general_config, parses) ==
    apply_config(Called(c), general_config, parses)

\* add_action, lines 106-110
add_action(c, action, parses) ==
    apply_config([Called(c) EXCEPT !.actions_history = Append(@, action),
                                   !.redoable_actions = <<>>,
                                   !.created = @ + 1], apply(action), parses)

\* undo, lines 112-117
undo(c, parses) ==
    IF Len(c.actions_history) # 0
    THEN LET action == c.actions_history[Len(c.actions_history)]
         IN apply_config([Called(c) EXCEPT
                !.actions_history = SubSeq(@, 1, Len(@) - 1),
                !.redoable_actions = Append(@, action)], unapply(action), parses)
    ELSE Called(c)

\* redo, lines 119-125
redo(c, parses) ==
    IF Len(c.redoable_actions) # 0
    THEN LET action == c.redoable_actions[Len(c.redoable_actions)]
         IN apply_config([Called(c) EXCEPT
                !.redoable_actions = SubSeq(@, 1, Len(@) - 1),
                !.actions_history = Append(@, action)], apply(action), parses)
    ELSE Called(c)

Init ==
    /\ callNo = 0
    /\ pc = "idle"
    /\ args = NoArgs
    /\ err = "none"
    /\ result = "none"
    /\ model = FreshModel
    /\ ms = FreshMS
    /\ strategy = FreshStrategy
    /\ disk \in Disks
    /\ entry = disk
    /\ log = <<>>
    /\ reads = {}
    /\ prev = [same |-> FALSE, sampled |-> FALSE, failed |-> FALSE, error |-> "none",
              unmarked |-> FALSE]
    /\ grid = NoGridCall
    /\ permuted = [parameters |-> <<>>, indices |-> <<>>]
    /\ noise = NoNoiseCall
    /\ rician = NoRicianCall
    /\ ctrl = NoController
    /\ ops = <<>>

(***************************************************************************)
(* The caller constructs a ModelSampling (lines 63-93).                    *)
(***************************************************************************)
NewModelSampling(space) ==
    /\ UNCHANGED notSampling
    /\ pc \in {"idle", "done"}
    /\ callNo < MaxCalls
    /\ \E a \in {x \in space : x.layer = "ModelSampling"} :
        LET r == ModelSampling_init(a)
        IN  /\ args' = a
            /\ err' = r.err
            /\ model' = r.model
            /\ ms' = r.ms
            /\ log' = r.log
            /\ pc' = IF r.err = "none" THEN "ms_constructed" ELSE "done"
            /\ prev' = [same |-> a = args,
                        sampled |-> strategy.runs > 0 /\ result = "sampled",
                        failed |-> err # "none",
                        error |-> err,
                        unmarked |-> \/ ~model_output_exists(entry)
                                     \/ \E i \in DOMAIN log : log[i] = "rmtree"]
    /\ callNo' = callNo + 1
    /\ result' = "none"
    /\ strategy' = FreshStrategy
    /\ entry' = disk
    /\ reads' = {}
    /\ UNCHANGED disk

(***************************************************************************)
(* ModelSampling.run up to the call of sampler.run() (lines 101-125): the  *)
(* devices, the processing strategy, the SampleSingleModel.                *)
(***************************************************************************)
ModelSampling_run ==
    /\ UNCHANGED notSampling
    /\ pc = "ms_constructed"
    /\ LET sel == ms.cl_device_indices
           r == cl_envs_of(sel.inds)
           inner == SampleSingleModel_init(args)
       IN  IF sel.kind # "none" /\ r.raised
           THEN /\ err' = "IndexError"
                /\ pc' = "done"
                /\ log' = log \o <<"get_cl_devices">>
                /\ UNCHANGED <<ms, strategy>>
           ELSE /\ ms' = IF sel.kind = "none" THEN ms
                         ELSE [ms EXCEPT !.cl_envs = <<r.envs>>,
                                         !.sampler_cl_environments = <<r.envs>>]
                /\ strategy' = [strategy EXCEPT !.constructed = TRUE]
                /\ log' = log
                     \o (IF sel.kind = "none" THEN <<>>
                         ELSE <<"get_cl_devices", "get_cl_devices">>)
                     \o <<"get_processing_strategy">> \o inner.log
                /\ err' = inner.err
                /\ pc' = IF inner.err = "none" THEN "ssm_constructed" ELSE "done"
    /\ UNCHANGED <<callNo, args, result, model, disk, entry, reads, prev>>

(***************************************************************************)
(* The caller constructs a SampleSingleModel directly, with a processing   *)
(* strategy of its own (lines 157-173).                                    *)
(***************************************************************************)
NewSampleSingleModel(space) ==
    /\ UNCHANGED notSampling
    /\ pc \in {"idle", "done"}
    /\ callNo < MaxCalls
    /\ \E a \in {x \in space : x.layer = "SampleSingleModel"} :
        LET r == SampleSingleModel_init(a)
        IN  /\ args' = a
            /\ err' = r.err
            /\ log' = r.log
            /\ pc' = IF r.err = "none" THEN "ssm_constructed" ELSE "done"
            /\ prev' = [same |-> a = args,
                        sampled |-> strategy.runs > 0 /\ result = "sampled",
                        failed |-> err # "none",
                        error |-> err,
                        unmarked |-> \/ ~model_output_exists(entry)
                                     \/ \E i \in DOMAIN log : log[i] = "rmtree"]
    /\ callNo' = callNo + 1
    /\ result' = "none"
    /\ model' = FreshModel
    /\ ms' = FreshMS
    /\ strategy' = [FreshStrategy EXCEPT !.constructed = TRUE]
    /\ entry' = disk
    /\ reads' = {}
    /\ UNCHANGED disk

(***************************************************************************)
(* SampleSingleModel.run, step by step.                                    *)
(***************************************************************************)
\* line 177
set_problem_data ==
    /\ UNCHANGED notSampling
    /\ pc = "ssm_constructed"
    /\ model' = [model EXCEPT !.problem_data = TRUE]
    /\ log' = log \o <<"set_problem_data">>
    /\ pc' = "gate"
    /\ UNCHANGED <<callNo, args, err, result, ms, strategy, disk, entry, reads, prev>>

\* lines 179-186
resumability_gate ==
    /\ UNCHANGED notSampling
    /\ pc = "gate"
    /\ LET g == gate(args.recalculate, disk)
       IN  /\ disk' = g.disk
           /\ log' = log \o g.log
           /\ result' = IF g.next = "return" THEN "loaded" ELSE result
           /\ pc' = IF g.next = "return" THEN "done" ELSE "output_path"
    /\ UNCHANGED <<callNo, args, err, model, ms, strategy, entry, reads, prev>>

\* lines 188-189, were the strategy called right after them
output_path_present_then_strategy ==
    /\ UNCHANGED notSampling
    /\ pc = "output_path"
    /\ LET m == ensure_output_path(disk)
       IN  /\ disk' = m.disk
           /\ log' = log \o m.log \o <<"logging_start">>
    /\ pc' = "process"
    /\ UNCHANGED <<callNo, args, err, result, model, ms, strategy, entry, reads, prev>>

\* lines 188-189
output_path_present ==
    /\ UNCHANGED notSampling
    /\ pc = "output_path"
    /\ LET m == ensure_output_path(disk)
       IN  /\ disk' = m.disk
           /\ log' = log \o m.log
    /\ pc' = "initialize"
    /\ UNCHANGED <<callNo, args, err, result, model, ms, strategy, entry, reads, prev>>

\* lines 191-192: inside _logging(), resolve the initialization and set it
set_initial_parameters ==
    /\ UNCHANGED notSampling
    /\ pc = "initialize"
    /\ LET r == get_initialization_params(args.initialize, args.initialize_using, disk)
       IN  /\ reads' = r.read
           /\ IF r.raised
              THEN /\ err' = logging("RuntimeError").err
                   /\ pc' = "done"
                   /\ log' = log \o <<"logging_start", "get_initialization_params">>
                                  \o logging("RuntimeError").log
                   /\ UNCHANGED model
              ELSE /\ model' = [model EXCEPT !.initial_parameters = <<r.maps>>]
                   /\ log' = log \o <<"logging_start", "get_initialization_params",
                                      "set_initial_parameters">>
                   /\ pc' = "process"
                   /\ UNCHANGED err
    /\ UNCHANGED <<callNo, args, result, ms, strategy, disk, entry, prev>>

\* lines 194-198: the processing strategy runs, and returns or raises
processing_strategy_run ==
    /\ UNCHANGED notSampling
    /\ pc = "process"
    /\ strategy' = [strategy EXCEPT !.runs = @ + 1,
                                    !.recalculate = <<args.recalculate>>]
    /\ \E o \in strategy_outcomes(disk) :
        /\ disk' = o.disk
        /\ LET w == logging(IF o.ok THEN "none" ELSE "StrategyError")
           IN  /\ err' = w.err
               /\ log' = log \o <<"processing_strategy_run">> \o w.log
               /\ result' = IF o.ok THEN "sampled" ELSE result
    /\ pc' = "done"
    /\ UNCHANGED <<callNo, args, model, ms, entry, reads, prev>>

(***************************************************************************)
(* The specification.                                                      *)
(***************************************************************************)
Step ==
    \/ ModelSampling_run
    \/ set_problem_data
    \/ resumability_gate
    \/ output_path_present
    \/ set_initial_parameters
    \/ processing_strategy_run

\* invocations of a composite model, one after the other
Next ==
    \/ NewModelSampling(RunArgs)
    \/ NewSampleSingleModel(RunArgs)
    \/ Step

Spec == Init /\ [][Next]_vars

\* constructions with every model kind and constructor argument
NextEntry ==
    \/ NewModelSampling(EntryArgs)
    \/ NewSampleSingleModel(EntryArgs)
    \/ Step

SpecEntry == Init /\ [][NextEntry]_vars

\* invocations with every device selection
NextDevices ==
    \/ NewModelSampling(DeviceArgs)
    \/ NewSampleSingleModel(DeviceArgs)
    \/ Step

SpecDevices == Init /\ [][NextDevices]_vars

\* the runs that initialize from a mapping
NextMapping ==
    \/ NewModelSampling(MappingArgs)
    \/ NewSampleSingleModel(MappingArgs)
    \/ Step
SpecMapping == Init /\ [][NextMapping]_vars

(***************************************************************************)
(* The grid functions applied to one set of arguments.                     *)
(***************************************************************************)
InitGrid ==
    /\ callNo = 0
    /\ pc = "idle"
    /\ args = NoArgs
    /\ err = "none"
    /\ result = "none"
    /\ model = FreshModel
    /\ ms = FreshMS
    /\ strategy = FreshStrategy
    /\ disk = [samples |-> FALSE, volume_maps |-> {}, fallback |-> {}, given |-> {}]
    /\ entry = disk
    /\ log = <<>>
    /\ reads = {}
    /\ prev = [same |-> FALSE, sampled |-> FALSE, failed |-> FALSE, error |-> "none",
              unmarked |-> FALSE]
    /\ grid \in GridCalls
    /\ permuted = [parameters |-> <<>>, indices |-> <<>>]
    /\ noise = NoNoiseCall
    /\ rician = NoRicianCall
    /\ ctrl = NoController
    /\ ops = <<>>

call_permutate_parameters ==
    /\ permuted.parameters = <<>>
    /\ permuted' = [permuted EXCEPT !.parameters = <<permutate_parameters(grid)>>]
    /\ UNCHANGED <<grid, notGrid>>

call_get_permuted_indices ==
    /\ permuted.indices = <<>>
    /\ permuted' = [permuted EXCEPT !.indices =
            <<get_permuted_indices(Len(grid.var_params_ind), grid.grid_size)>>]
    /\ UNCHANGED <<grid, notGrid>>

NextGrid ==
    \/ call_permutate_parameters
    \/ call_get_permuted_indices
SpecGrid == InitGrid /\ [][NextGrid]_vars

(***************************************************************************)
(* The noise estimator applied to one batch of signals.                    *)
(***************************************************************************)
InitNoise ==
    /\ callNo = 0
    /\ pc = "idle"
    /\ args = NoArgs
    /\ err = "none"
    /\ result = "none"
    /\ model = FreshModel
    /\ ms = FreshMS
    /\ strategy = FreshStrategy
    /\ disk = [samples |-> FALSE, volume_maps |-> {}, fallback |-> {}, given |-> {}]
    /\ entry = disk
    /\ log = <<>>
    /\ reads = {}
    /\ prev = [same |-> FALSE, sampled |-> FALSE, failed |-> FALSE, error |-> "none",
              unmarked |-> FALSE]
    /\ grid = NoGridCall
    /\ permuted = [parameters |-> <<>>, indices |-> <<>>]
    /\ noise \in NoiseCalls
    /\ rician = NoRicianCall
    /\ ctrl = NoController
    /\ ops = <<>>

call_estimate_noise_std ==
    /\ noise.signals # <<>>
    /\ noise.estimate = <<>>
    /\ noise' = [noise EXCEPT !.estimate = <<estimate_noise_std(noise)>>]
    /\ UNCHANGED notNoise

NextNoise ==
    \/ call_estimate_noise_std
SpecNoise == InitNoise /\ [][NextNoise]_vars

\* nothing has been called on the orchestrator and nothing is on the disk
SamplingAtRest ==
    /\ callNo = 0
    /\ pc = "idle"
    /\ args = NoArgs
    /\ err = "none"
    /\ result = "none"
    /\ model = FreshModel
    /\ ms = FreshMS
    /\ strategy = FreshStrategy
    /\ disk = [samples |-> FALSE, volume_maps |-> {}, fallback |-> {}, given |-> {}]
    /\ entry = disk
    /\ log = <<>>
    /\ reads = {}
    /\ prev = [same |-> FALSE, sampled |-> FALSE, failed |-> FALSE, error |-> "none",
              unmarked |-> FALSE]

(***************************************************************************)
(* make_rician_distributed applied to one set of signals and draws.        *)
(***************************************************************************)
InitRician ==
    /\ SamplingAtRest
    /\ grid = NoGridCall
    /\ permuted = [parameters |-> <<>>, indices |-> <<>>]
    /\ noise = NoNoiseCall
    /\ rician \in RicianCalls
    /\ ctrl = NoController
    /\ ops = <<>>

call_make_rician_distributed ==
    /\ rician.signals # <<>>
    /\ rician.output = <<>>
    /\ rician' = [rician EXCEPT !.output = <<make_rician_distributed(rician)>>]
    /\ UNCHANGED notRician

NextRician ==
    \/ call_make_rician_distributed
SpecRician == InitRician /\ [][NextRician]_vars

(***************************************************************************)
(* A QtController, with or without a MainWindow, the calls made on it and  *)
(* the edits of the configuration text of its MainWindow. ops records      *)
(* every one of them with the two stacks as they were before it.           *)
(***************************************************************************)
InitController ==
    /\ SamplingAtRest
    /\ grid = NoGridCall
    /\ permuted = [parameters |-> <<>>, indices |-> <<>>]
    /\ noise = NoNoiseCall
    /\ rician = NoRicianCall
    /\ ctrl \in {NewController(w) : w \in BOOLEAN}
    /\ ops = <<>>

Record(op) ==
    Append(ops, [op |-> op, actions_history |-> ctrl.actions_history,
                 redoable_actions |-> ctrl.redoable_actions])

call_set_data ==
    /\ Len(ops) < MaxOps
    /\ \E config \in {<<>>, <<GivenConfig>>}, parses \in BOOLEAN :
        ctrl' = set_data(ctrl, config, parses)
    /\ ops' = Record("set_data")
    /\ UNCHANGED notController

call_set_config ==
    /\ Len(ops) < MaxOps
    /\ \E general_config \in {DefaultConfig, GivenConfig}, parses \in BOOLEAN :
        ctrl' = set_config(ctrl, general_config, parses)
    /\ ops' = Record("set_config")
    /\ UNCHANGED notController

\* the user changes the text of textConfigEdit, which only a controller with
\* a MainWindow has: textChanged calls _config_from_string (lines 31, 58-69)
edit_config_text ==
    /\ Len(ops) < MaxOps
    /\ ctrl.window
    /\ \E parses \in BOOLEAN : ctrl' = config_from_string(Called(ctrl), parses)
    /\ ops' = Record("textChanged")
    /\ UNCHANGED notController

call_add_action ==
    /\ Len(ops) < MaxOps
    /\ \E parses \in BOOLEAN :
        ctrl' = add_action(ctrl, UserAction(ctrl.created + 1), parses)
    /\ ops' = Record("add_action")
    /\ UNCHANGED notController

call_undo ==
    /\ Len(ops) < MaxOps
    /\ \E parses \in BOOLEAN : ctrl' = undo(ctrl, parses)
    /\ ops' = Record("undo")
    /\ UNCHANGED notController

call_redo ==
    /\ Len(ops) < MaxOps
    /\ \E parses \in BOOLEAN : ctrl' = redo(ctrl, parses)
    /\ ops' = Record("redo")
    /\ UNCHANGED notController

NextController ==
    \/ call_set_data
    \/ call_set_config
    \/ edit_config_text
    \/ call_add_action
    \/ call_undo
    \/ call_redo
SpecController == InitController /\ [][NextController]_vars

(***************************************************************************)
(* What the log of an invocation says.                                     *)
(***************************************************************************)
Happened(e) == \E i \in DOMAIN log : log[i] = e
Count(e) == Cardinality({i \in DOMAIN log : log[i] = e})
\* every e1 of the log is before every e2
Before(e1, e2) == \A i \in DOMAIN log, j \in DOMAIN log :
                    log[i] = e1 /\ log[j] = e2 => i < j
\* SampleSingleModel.run has been entered
RunEntered == Happened("set_problem_data")
\* the gate has decided
GateDecided == Happened("exists") \/ Happened("model_output_exists")

(***************************************************************************)
(* C1. Idempotent resume: an invocation with the arguments of the one      *)
(* before it and recalculate = false, after that one ran the processing    *)
(* strategy to completion, never invokes the processing strategy and       *)
(* returns the loaded persisted result.                                    *)
(***************************************************************************)
C1_IdempotentResume ==
    (prev.same /\ prev.sampled /\ ~args.recalculate) =>
        /\ strategy.runs = 0
        /\ ~Happened("processing_strategy_run")
        /\ err = "none"
        /\ pc = "done" => result = "loaded" /\ Happened("load_samples")

C1_Witness ==
    /\ callNo = 2 /\ prev.same /\ prev.sampled /\ ~args.recalculate
    /\ pc = "done" /\ result = "loaded" /\ strategy.runs = 0

(***************************************************************************)
(* C2. Forced recompute: in a SampleSingleModel.run with recalculate =     *)
(* true an output directory that exists is deleted, marker or not; the     *)
(* deletion is before the initialization is resolved and before the        *)
(* processing strategy is invoked; the run never returns the loaded        *)
(* result; once the initial parameters are set the processing strategy is  *)
(* invoked, with recalculate = true and on an output directory without     *)
(* volume maps.                                                            *)
(***************************************************************************)
C2_ForcedRecompute ==
    (args.recalculate /\ RunEntered) =>
        /\ (GateDecided /\ entry.samples) => Happened("rmtree")
        /\ pc = "output_path" => ~disk.samples
        /\ Before("rmtree", "get_initialization_params")
        /\ Before("rmtree", "processing_strategy_run")
        /\ ~Happened("load_samples") /\ result # "loaded"
        /\ (pc = "done" /\ Happened("set_initial_parameters")) => strategy.runs = 1
        /\ strategy.runs > 0 => strategy.recalculate = <<TRUE>>
        /\ pc = "process" => disk.samples /\ disk.volume_maps = {}

C2_Witness ==
    /\ args.recalculate /\ model_output_exists(entry)
    /\ pc = "done" /\ result = "sampled" /\ Happened("rmtree")
    /\ strategy.recalculate = <<TRUE>>

(***************************************************************************)
(* C3. CompletedUsable skips the Fresh path. As claimed: a run with        *)
(* recalculate = false that finds the marker returns the loaded result     *)
(* and has not bound the problem data to the model, not resolved the       *)
(* initialization, created or deleted no directory and not invoked the     *)
(* processing strategy.                                                    *)
(***************************************************************************)
C3_AsClaimed ==
    (~args.recalculate /\ model_output_exists(entry) /\ GateDecided) =>
        /\ pc = "done" /\ result = "loaded" /\ err = "none"
        /\ ~model.problem_data
        /\ ~Happened("get_initialization_params")
        /\ model.initial_parameters = <<>> /\ reads = {}
        /\ ~Happened("makedirs") /\ ~Happened("rmtree") /\ disk = entry
        /\ strategy.runs = 0

(***************************************************************************)
(* C3, amended. The problem data is bound to the model (line 177, before   *)
(* the gate); every other Fresh-path step is skipped: the initialization   *)
(* is not resolved, so no RuntimeError even without initialization maps,   *)
(* no directory is created or deleted and the processing strategy is not   *)
(* invoked.                                                                *)
(***************************************************************************)
C3_CompletedUsable ==
    (~args.recalculate /\ model_output_exists(entry) /\ GateDecided) =>
        /\ pc = "done" /\ result = "loaded" /\ err = "none"
        /\ model.problem_data
        /\ Before("set_problem_data", "model_output_exists")
        /\ ~Happened("get_initialization_params")
        /\ model.initial_parameters = <<>> /\ reads = {}
        /\ ~Happened("makedirs") /\ ~Happened("rmtree") /\ disk = entry
        /\ strategy.runs = 0

C3_Witness ==
    /\ ~args.recalculate /\ model_output_exists(entry) /\ GateDecided
    /\ args.initialize /\ args.initialize_using = UsingNone /\ entry.fallback = {}
    /\ pc = "done" /\ result = "loaded" /\ model.problem_data

(***************************************************************************)
(* C4. Fresh without recalculate keeps what is there: a run with           *)
(* recalculate = false that finds no marker deletes nothing; up to the     *)
(* invocation of the processing strategy the volume maps are those of the  *)
(* entry; the output directory exists when the processing strategy is      *)
(* invoked, created only if it was absent; the processing strategy gets    *)
(* recalculate = false.                                                    *)
(***************************************************************************)
C4_FreshKeepsPartial ==
    (~args.recalculate /\ ~model_output_exists(entry) /\ RunEntered) =>
        /\ ~Happened("rmtree") /\ ~Happened("load_samples")
        /\ strategy.runs = 0 =>
              /\ disk.volume_maps = entry.volume_maps
              /\ entry.samples => disk.samples
        /\ entry.samples => ~Happened("makedirs")
        /\ pc \in {"initialize", "process"} =>
              /\ disk.samples
              /\ ~entry.samples => Happened("makedirs")
        /\ strategy.runs > 0 =>
              /\ strategy.recalculate = <<FALSE>>
              /\ Before("isdir", "processing_strategy_run")
              /\ entry.volume_maps \subseteq disk.volume_maps /\ disk.samples

C4_Witness ==
    /\ ~args.recalculate /\ entry.samples /\ entry.volume_maps = {"m1"}
    /\ pc = "done" /\ strategy.runs = 1 /\ strategy.recalculate = <<FALSE>>
    /\ "m1" \in disk.volume_maps

(***************************************************************************)
(* C5. Cascade rejection before any side effect: constructing a            *)
(* ModelSampling with a cascade model, given as an object or by name,      *)
(* raises ValueError with the precision flag unset, the temporary results  *)
(* directory and the sampler unresolved, no device enumerated, no          *)
(* processing strategy and the output directory as it was, whatever        *)
(* recalculate, initialize and the device selection are.                   *)
(***************************************************************************)
C5_CascadeRejected ==
    (args.layer = "ModelSampling" /\ args.cascade) =>
        /\ pc = "done" /\ err = "ValueError" /\ result = "none"
        /\ model = FreshModel
        /\ ms = FreshMS
        /\ log = IF args.by_name THEN <<"get_model">> ELSE <<>>
        /\ strategy = FreshStrategy
        /\ disk = entry /\ reads = {}

C5_Witness ==
    /\ args.layer = "ModelSampling" /\ args.cascade /\ args.by_name
    /\ args.recalculate /\ args.cl_device_ind = IntDevice(0)
    /\ model_output_exists(entry) /\ disk = entry
    /\ err = "ValueError"

(***************************************************************************)
(* C6. Insufficient protocol. As claimed: with an insufficient protocol    *)
(* the construction of a ModelSampling and of a SampleSingleModel both     *)
(* raise InsufficientProtocolError with the model's protocol problems,     *)
(* and nothing later happens: the output directory is as it was, no        *)
(* initialization is resolved, the processing strategy is not invoked.     *)
(***************************************************************************)
C6_AsClaimed ==
    (callNo > 0 /\ ~args.sufficient) =>
        /\ pc = "done" /\ err = "InsufficientProtocolError"
        /\ Happened("get_protocol_problems")
        /\ disk = entry
        /\ ~RunEntered /\ ~Happened("get_initialization_params") /\ reads = {}
        /\ strategy.runs = 0 /\ result = "none"

(***************************************************************************)
(* C6, amended. ModelSampling rejects a cascade model first (line 66), so  *)
(* a cascade model with an insufficient protocol gets ValueError there;    *)
(* every other construction with an insufficient protocol, at either       *)
(* layer, raises InsufficientProtocolError with the protocol problems. In  *)
(* all of them nothing later happens.                                      *)
(***************************************************************************)
C6_InsufficientProtocol ==
    (callNo > 0 /\ ~args.sufficient) =>
        /\ pc = "done"
        /\ IF args.layer = "ModelSampling" /\ args.cascade
           THEN err = "ValueError" /\ ~Happened("get_protocol_problems")
           ELSE err = "InsufficientProtocolError" /\ Happened("get_protocol_problems")
        /\ disk = entry
        /\ ~RunEntered /\ ~Happened("get_initialization_params") /\ reads = {}
        /\ strategy.runs = 0 /\ result = "none"

C6_Witness ==
    /\ callNo > 0 /\ ~args.sufficient /\ args.layer = "SampleSingleModel"
    /\ args.recalculate /\ model_output_exists(entry) /\ disk = entry
    /\ err = "InsufficientProtocolError"

(***************************************************************************)
(* C7. No silent fallback to the model's defaults: with initialize = true  *)
(* and an empty initialization source (an empty folder in mode None or     *)
(* path, an empty dict) the resolution raises RuntimeError, the initial    *)
(* parameters are not set and the processing strategy is not invoked.      *)
(***************************************************************************)
EmptySource ==
    \/ args.initialize_using.kind = "none" /\ entry.fallback = {}
    \/ args.initialize_using.kind = "str" /\ entry.given = {}
    \/ args.initialize_using.kind = "dict" /\ args.initialize_using.items = {}

C7_NoSilentFallback ==
    (args.initialize /\ EmptySource /\ Happened("get_initialization_params")) =>
        /\ pc = "done" /\ err = "RuntimeError" /\ result = "none"
        /\ model.initial_parameters = <<>>
        /\ ~Happened("set_initial_parameters")
        /\ strategy.runs = 0 /\ ~Happened("processing_strategy_run")

C7_Witness ==
    /\ args.initialize /\ args.initialize_using = UsingNone /\ entry.fallback = {}
    /\ Happened("get_initialization_params")
    /\ err = "RuntimeError" /\ strategy.runs = 0

(***************************************************************************)
(* C8. initialize = false gives the empty map: whatever initialize_using   *)
(* is, the resolver returns the empty map, reads nothing and does not      *)
(* raise, and the processing strategy is invoked.                          *)
(***************************************************************************)
C8_NoInitialization ==
    (~args.initialize /\ Happened("get_initialization_params")) =>
        /\ model.initial_parameters = << {} >>
        /\ reads = {}
        /\ err # "RuntimeError"
        /\ pc \in {"process", "done"}
        /\ pc = "done" => strategy.runs = 1

C8_Witness ==
    /\ ~args.initialize /\ args.initialize_using = UsingStr /\ entry.given = {}
    /\ pc = "done" /\ strategy.runs = 1 /\ model.initial_parameters = << {} >>

(***************************************************************************)
(* C9. The initialization sources exclude each other: with initialize =    *)
(* true, None reads the fallback folder alone and gives its maps, a path   *)
(* reads the given folder alone and gives its maps, a dict reads neither   *)
(* folder and gives the keys of the dict.                                  *)
(***************************************************************************)
KeysOf(maps) == {x[1] : x \in maps}

C9_ExclusiveSources ==
    (args.initialize /\ Happened("get_initialization_params")) =>
        LET using == args.initialize_using
            set == model.initial_parameters
        IN  /\ using.kind = "none" =>
                  /\ reads = {FallbackFolder}
                  /\ set # <<>> => KeysOf(set[1]) = entry.fallback
            /\ using.kind = "str" =>
                  /\ reads = {GivenFolder}
                  /\ set # <<>> => KeysOf(set[1]) = entry.given
            /\ using.kind = "dict" =>
                  /\ reads \cap {FallbackFolder, GivenFolder} = {}
                  /\ set # <<>> => KeysOf(set[1]) = KeysOf(using.items)

C9_Witness ==
    /\ args.initialize /\ args.initialize_using = UsingStr
    /\ entry.given = {"p1"} /\ entry.fallback = {}
    /\ pc = "process" /\ reads = {GivenFolder}
    /\ KeysOf(model.initial_parameters[1]) = {"p1"}

(***************************************************************************)
(* C10. Every device index is validated. As claimed: once the devices are  *)
(* enumerated for a selection with an index outside 0 .. n-1, negative     *)
(* ones included, run has failed with an IndexError, no processing         *)
(* strategy is constructed, the output directory is as it was and no       *)
(* device is selected.                                                     *)
(***************************************************************************)
C10_AsClaimed ==
    LET inds == args.cl_device_ind.inds
    IN  (/\ args.layer = "ModelSampling"
         /\ Happened("get_cl_devices")
         /\ \E i \in DOMAIN inds : inds[i] \notin 0 .. (NumDevices - 1)) =>
            /\ pc = "done" /\ err = "IndexError"
            /\ ~strategy.constructed /\ strategy.runs = 0
            /\ disk = entry
            /\ ms.cl_envs = <<>> /\ ms.sampler_cl_environments = <<>>

(***************************************************************************)
(* What the claims about the parameter grids speak of.                     *)
(***************************************************************************)
RECURSIVE Product(_)
Product(sizes) == IF sizes = <<>> THEN 1 ELSE sizes[1] * Product(Tail(sizes))
\* permutate_parameters and get_permuted_indices have returned or raised
Permutated == permuted.parameters # <<>>
Indexed == permuted.indices # <<>>
Parameters == permuted.parameters[1]
Indices == permuted.indices[1]
\* grid_size is a list with one entry per varying parameter
MatchingList ==
    /\ grid.grid_size.kind = "list"
    /\ Len(grid.grid_size.sizes) = Len(grid.var_params_ind)
Varying(p) == \E i \in DOMAIN grid.var_params_ind : grid.var_params_ind[i] = p

(***************************************************************************)
(* C11. With distinct varying indices and a grid-size list of matching     *)
(* length, permutate_parameters returns a matrix with as many rows as the  *)
(* product of the grid sizes (one row when no parameter varies) and one    *)
(* column per parameter, and the column of every parameter that does not   *)
(* vary holds that parameter's default value on every row.                 *)
(***************************************************************************)
C11_GridSizeAndDefaults ==
    (Permutated /\ MatchingList) =>
        /\ Parameters.err = "none"
        /\ Len(Parameters.value) = Product(grid.grid_size.sizes)
        /\ (grid.var_params_ind = <<>> => Len(Parameters.value) = 1)
        /\ \A k \in DOMAIN Parameters.value :
            /\ Len(Parameters.value[k]) = NumParams
            /\ \A p \in ParamIndices :
                ~Varying(p) =>
                    Parameters.value[k][p + 1] = Whole(grid.table.default_values[p + 1])

\* two parameters vary over 3 and 2 grid points, and the third keeps a default
\* that differs from its bounds
C11_Witness ==
    /\ Permutated /\ MatchingList
    /\ Len(grid.var_params_ind) = 2
    /\ grid.grid_size.sizes = <<3, 2>>
    /\ Len(Parameters.value) = 6
    /\ \E p \in ParamIndices :
        /\ ~Varying(p)
        /\ grid.table.default_values[p + 1] # grid.table.lower_bounds[p + 1]
        /\ \A k \in 1..6 :
            Parameters.value[k][p + 1] = Whole(grid.table.default_values[p + 1])

\* the grid size, the bounds and the column of the i-th varying parameter
GridSizeOf(i) == broadcast_grid_size(grid.var_params_ind, grid.grid_size)[i]
LowerOf(i) == Whole(grid.table.lower_bounds[grid.var_params_ind[i] + 1])
UpperOf(i) == Whole(grid.table.upper_bounds[grid.var_params_ind[i] + 1])
ColumnOf(i) ==
    [k \in DOMAIN Parameters.value |-> Parameters.value[k][grid.var_params_ind[i] + 1]]
ValuesOf(i) == {ColumnOf(i)[k] : k \in DOMAIN ColumnOf(i)}
\* (upper - lower) / (grid_size - 1), for a grid of two points or more
StepOf(i) ==
    Rat(grid.table.upper_bounds[grid.var_params_ind[i] + 1]
            - grid.table.lower_bounds[grid.var_params_ind[i] + 1], GridSizeOf(i) - 1)
\* permutate_parameters returned a matrix
Returned == Permutated /\ Parameters.err = "none"

(***************************************************************************)
(* C12 as stated: for every varying parameter and every grid size >= 1,    *)
(* grid size 1 with different bounds included, the values of the           *)
(* parameter's column contain both its lower and its upper bound.          *)
(***************************************************************************)
C12_AsClaimed ==
    Returned =>
        \A i \in DOMAIN grid.var_params_ind :
            LowerOf(i) \in ValuesOf(i) /\ UpperOf(i) \in ValuesOf(i)

(***************************************************************************)
(* C12. For every varying parameter with a grid size of two or more, the   *)
(* values of its column contain both its lower and its upper bound, and    *)
(* from one row to the next the column stays, moves by the constant step   *)
(* (upper - lower) / (grid_size - 1), or starts over from the lower bound  *)
(* after the upper; with grid size 1 the column holds the lower bound only.*)
(***************************************************************************)
C12_InclusiveBounds ==
    Returned =>
        \A i \in DOMAIN grid.var_params_ind :
            IF GridSizeOf(i) = 1 THEN ValuesOf(i) = {LowerOf(i)}
            ELSE /\ LowerOf(i) \in ValuesOf(i)
                 /\ UpperOf(i) \in ValuesOf(i)
                 /\ Cardinality(ValuesOf(i)) =
                        (IF LowerOf(i) = UpperOf(i) THEN 1 ELSE GridSizeOf(i))
                 /\ \A k \in DOMAIN ColumnOf(i) :
                        k + 1 \in DOMAIN ColumnOf(i) =>
                            \/ ColumnOf(i)[k + 1] = ColumnOf(i)[k]
                            \/ RatMinus(ColumnOf(i)[k + 1], ColumnOf(i)[k]) = StepOf(i)
                            \/ /\ ColumnOf(i)[k] = UpperOf(i)
                               /\ ColumnOf(i)[k + 1] = LowerOf(i)

\* a parameter varies over three points between different bounds, another has
\* one grid point, which is its lower bound
C12_Witness ==
    /\ Returned
    /\ \E i \in DOMAIN grid.var_params_ind :
        /\ GridSizeOf(i) = 3
        /\ LowerOf(i) # UpperOf(i)
        /\ {LowerOf(i), UpperOf(i)} \subseteq ValuesOf(i)
        /\ Cardinality(ValuesOf(i)) = 3
    /\ \E i \in DOMAIN grid.var_params_ind :
        /\ GridSizeOf(i) = 1
        /\ LowerOf(i) # UpperOf(i)
        /\ ValuesOf(i) = {LowerOf(i)}

\* both functions returned
BothReturned == Returned /\ Indexed /\ Indices.err = "none"
\* np.linspace over the bounds of the i-th varying parameter
LinspaceOf(i) ==
    linspace(grid.table.lower_bounds[grid.var_params_ind[i] + 1],
             grid.table.upper_bounds[grid.var_params_ind[i] + 1], GridSizeOf(i))

(***************************************************************************)
(* C13. Given a list of grid sizes, one per varying parameter, both        *)
(* functions return matrices with the same number of rows, and for every   *)
(* row k and position p of the varying list, the entry [k][p] of           *)
(* get_permuted_indices, used as an index into the linearly spaced values  *)
(* of the p-th varying parameter, is the value permutate_parameters puts   *)
(* on row k in that parameter's column.                                    *)
(***************************************************************************)
C13_IndexValueCorrespondence ==
    (Permutated /\ Indexed /\ MatchingList) =>
        /\ BothReturned
        /\ Len(Indices.value) = Len(Parameters.value)
        /\ \A k \in DOMAIN Indices.value :
            /\ Len(Indices.value[k]) = Len(grid.var_params_ind)
            /\ \A p \in DOMAIN grid.var_params_ind :
                /\ Indices.value[k][p] \in 0 .. (GridSizeOf(p) - 1)
                /\ LinspaceOf(p)[Indices.value[k][p] + 1] = ColumnOf(p)[k]

\* three parameters vary between different bounds over 2, 3 and 2 points, and
\* on some row the coordinates differ from one another
C13_Witness ==
    /\ BothReturned /\ MatchingList
    /\ grid.grid_size.sizes = <<2, 3, 2>>
    /\ \A p \in 1..2 : LowerOf(p) # UpperOf(p)
    /\ \E k \in DOMAIN Indices.value :
        /\ Indices.value[k] = <<1, 2, 0>>
        /\ ColumnOf(1)[k] = UpperOf(1)
        /\ ColumnOf(2)[k] = UpperOf(2)
        /\ ColumnOf(3)[k] = LowerOf(3)

\* the call with the list [g, ..., g] in place of the number g
AsList(c) ==
    [c EXCEPT !.grid_size = GridList(broadcast_grid_size(c.var_params_ind, c.grid_size))]

(***************************************************************************)
(* C14 as stated: with a single integer g as the grid size, both           *)
(* permutate_parameters and get_permuted_indices return what they return   *)
(* for the list [g, ..., g] with one entry per varying parameter.          *)
(***************************************************************************)
C14_AsClaimed ==
    (Permutated /\ Indexed /\ grid.grid_size.kind = "int") =>
        /\ Parameters = permutate_parameters(AsList(grid))
        /\ Parameters.err = "none"
        /\ Indices = get_permuted_indices(Len(grid.var_params_ind), AsList(grid).grid_size)
        /\ Indices.err = "none"

(***************************************************************************)
(* C15 as stated: with a list of grid sizes that is shorter or longer than *)
(* the list of varying indices, permutate_parameters raises an error and   *)
(* returns no matrix.                                                      *)
(***************************************************************************)
C15_AsClaimed ==
    (Permutated /\ grid.grid_size.kind = "list"
        /\ Len(grid.grid_size.sizes) # Len(grid.var_params_ind)) =>
            Parameters.err # "none"

\* the product g_0 * ... * g_{i-1} of the grid sizes before the i-th
StrideOf(i) == Product(SubSeq(grid.grid_size.sizes, 1, i - 1))
\* the arguments of the three-parameter example
Scenario ==
    /\ grid.table.default_values = <<1, 2, 3>>
    /\ grid.table.lower_bounds = <<0, 0, 3>>
    /\ grid.table.upper_bounds = <<2, 4, 3>>
    /\ grid.var_params_ind = <<0, 1>>
    /\ grid.grid_size = GridList(<<3, 2>>)
ScenarioRows ==
    <<<<Whole(0), Whole(0), Whole(3)>>, <<Whole(1), Whole(0), Whole(3)>>,
      <<Whole(2), Whole(0), Whole(3)>>, <<Whole(0), Whole(4), Whole(3)>>,
      <<Whole(1), Whole(4), Whole(3)>>, <<Whole(2), Whole(4), Whole(3)>>>>

(***************************************************************************)
(* C16. With one grid size per varying parameter, on row k (counted from   *)
(* 0) the grid coordinate of the i-th varying parameter is                 *)
(* floor(k / (g_0 * ... * g_{i-1})) mod g_i, in get_permuted_indices as    *)
(* the entry and in permutate_parameters as the grid value of that         *)
(* coordinate; every tuple of coordinates is on exactly one row; and the   *)
(* three-parameter example gives the rows (0,0,3), (1,0,3), (2,0,3),       *)
(* (0,4,3), (1,4,3), (2,4,3) in this order.                                *)
(***************************************************************************)
C16_NestingOrder ==
    (BothReturned /\ MatchingList) =>
        /\ \A k \in DOMAIN Indices.value : \A i \in DOMAIN grid.var_params_ind :
            LET coordinate == ((k - 1) \div StrideOf(i)) % GridSizeOf(i)
            IN /\ Indices.value[k][i] = coordinate
               /\ ColumnOf(i)[k] = LinspaceOf(i)[coordinate + 1]
        /\ Len(Indices.value) = Product(grid.grid_size.sizes)
        /\ \A k \in DOMAIN Indices.value : \A l \in DOMAIN Indices.value :
            Indices.value[k] = Indices.value[l] => k = l
        /\ Scenario => Parameters.value = ScenarioRows

\* the example was computed, and its second parameter moves only every third row
C16_Witness ==
    /\ BothReturned /\ Scenario
    /\ Parameters.value = ScenarioRows
    /\ Indices.value = <<<<0, 0>>, <<1, 0>>, <<2, 0>>, <<0, 1>>, <<1, 1>>, <<2, 1>>>>

(***************************************************************************)
(* C17. With initialize = true and initialize_using a non-empty mapping,   *)
(* the resolver returns a map with exactly the keys of the mapping, which  *)
(* is set on the model: a key with a path string holds the loaded volume   *)
(* projected through the mask, a key with a scalar holds the scalar as it  *)
(* is, and a key with any other value holds that value projected through   *)
(* the mask.                                                               *)
(***************************************************************************)
C17_PerKeyDispatch ==
    LET using == args.initialize_using
    IN  (/\ args.initialize /\ using.kind = "dict" /\ using.items # {}
         /\ Happened("get_initialization_params")) =>
            /\ err # "RuntimeError"
            /\ Happened("set_initial_parameters")
            /\ model.initial_parameters # <<>>
            /\ KeysOf(model.initial_parameters[1]) = KeysOf(using.items)
            /\ Cardinality(model.initial_parameters[1]) = Cardinality(using.items)
            /\ \A x \in using.items :
                /\ x[2] = "str" => <<x[1], "masked volume">> \in model.initial_parameters[1]
                /\ x[2] = "scalar" => <<x[1], "scalar">> \in model.initial_parameters[1]
                /\ x[2] = "array" => <<x[1], "masked array">> \in model.initial_parameters[1]

\* a mapping of a scalar and a path was resolved key by key
C17_Witness ==
    /\ args.initialize
    /\ args.initialize_using = UsingDict({<<"p1", "scalar">>, <<"p2", "str">>})
    /\ pc = "process"
    /\ model.initial_parameters = <<{<<"p1", "scalar">>, <<"p2", "masked volume">>}>>

\* the processing strategy has been called in this run
StrategyReached == Happened("processing_strategy_run")
\* the processing strategy was called and failed: it left the volume maps
\* incomplete
StrategyFailed == StrategyReached /\ ~model_output_exists(disk)

(***************************************************************************)
(* C18. A run that reaches the processing strategy has first decided the   *)
(* gate, then made sure the output directory is there, then resolved the   *)
(* initialization map and set it on the model, and then called the         *)
(* strategy, once; the strategy is not called while the model's initial    *)
(* parameters are not set.                                                 *)
(***************************************************************************)
C18_FreshPathOrder ==
    /\ (pc = "process" \/ StrategyReached) =>
        /\ GateDecided
        /\ Happened("isdir") /\ disk.samples
        /\ Happened("get_initialization_params")
        /\ Happened("set_initial_parameters")
        /\ model.initial_parameters # <<>>
        /\ Before("exists", "isdir") /\ Before("model_output_exists", "isdir")
        /\ Before("rmtree", "isdir")
        /\ Before("isdir", "get_initialization_params")
        /\ Before("makedirs", "get_initialization_params")
        /\ Before("get_initialization_params", "set_initial_parameters")
        /\ Before("set_initial_parameters", "processing_strategy_run")
    /\ StrategyReached =>
        /\ Count("processing_strategy_run") = 1
        /\ strategy.runs = 1
        /\ log[Len(log)] \in {"processing_strategy_run", "logging_end"}

\* a forced run deleted the old output, made the directory anew, set the
\* initial parameters and called the strategy, in this order
C18_Witness ==
    /\ args.recalculate /\ entry.samples
    /\ StrategyReached /\ strategy.runs = 1
    /\ SubSeq(log, Len(log) - 8, Len(log) - 1) =
        <<"exists", "rmtree", "isdir", "makedirs", "logging_start",
          "get_initialization_params", "set_initial_parameters",
          "processing_strategy_run">>

(***************************************************************************)
(* C19. What the initialization resolver or the processing strategy raises *)
(* inside the timing wrapper is what run raises: run then returns nothing, *)
(* the end of the run is not logged, and nothing is called again; the      *)
(* processing strategy is called at most once per run.                     *)
(***************************************************************************)
C19_ErrorsPassThrough ==
    /\ (args.initialize /\ EmptySource /\ Happened("get_initialization_params")) =>
        /\ pc = "done" /\ err = "RuntimeError" /\ result = "none"
        /\ ~Happened("logging_end")
        /\ log[Len(log)] = "get_initialization_params"
    /\ StrategyFailed =>
        /\ pc = "done" /\ err = "StrategyError" /\ result = "none"
        /\ ~Happened("logging_end")
        /\ log[Len(log)] = "processing_strategy_run"
    /\ err # "none" => result = "none"
    /\ Count("processing_strategy_run") <= 1 /\ strategy.runs <= 1
    /\ Count("get_initialization_params") <= 1

\* the strategy failed inside the wrapper and run raised its error
C19_Witness ==
    /\ StrategyFailed
    /\ Happened("logging_start")
    /\ pc = "done" /\ err = "StrategyError" /\ result = "none"
    /\ strategy.runs = 1

\* estimate_noise_std has returned
Estimated == noise.estimate # <<>>
Estimate == noise.estimate[1]

(***************************************************************************)
(* C20 as stated: the mean square of a voxel's residuals is the sum of     *)
(* their squares over the voxel's unweighted measurements divided by the   *)
(* number of unweighted measurements, whatever the number of voxels and    *)
(* of unweighted measurements, and the value returned is the mean over the *)
(* voxels of sqrt(mean square / 2).                                        *)
(***************************************************************************)
C20_AsClaimed ==
    LET Measurements == Len(get_unweighted_indices(noise.protocol.volumes))
    IN (Estimated /\ Measurements >= 1) =>
        /\ \A v \in DOMAIN noise.signals :
            mean_squares(noise)[v] = Rat(sum_of_squares(noise)[v], Measurements)
        /\ Estimate =
            np_mean([v \in DOMAIN noise.signals |->
                        np_sqrt_rational(Rat(sum_of_squares(noise)[v],
                                             2 * Measurements))])

\* make_rician_distributed has been applied
Distributed == rician.output # <<>>
RicianOutput == rician.output[1].value

(***************************************************************************)
(* C21 as stated: for every signal s and draws n1, n2 the output of        *)
(* make_rician_distributed is the magnitude of the two components          *)
(* s + noise_level * n1 and noise_level * n2: its square is the sum of     *)
(* their squares.                                                          *)
(***************************************************************************)
C21_AsClaimed ==
    Distributed =>
        \A i \in DOMAIN rician.signals :
            LET real == rician.signals[i] + rician.noise_level * rician.normal_x[i]
                imaginary == rician.noise_level * rician.normal_y[i]
            IN RicianOutput[i] * RicianOutput[i] = real * real + imaginary * imaginary

(***************************************************************************)
(* C22. Whatever the runs and their recalculate values, the orchestrator   *)
(* deletes nothing but <output_folder>/<model_name>/samples: the maps of   *)
(* the fallback folder <output_folder>/<model_name>/ and of a given folder *)
(* stay as they were, so a forced run with initialize_using = None over a  *)
(* non-empty fallback folder resolves its initialization maps from it.     *)
(***************************************************************************)
C22_InitializationSourceKept ==
    /\ disk.fallback = entry.fallback
    /\ disk.given = entry.given
    /\ Happened("rmtree") => args.recalculate /\ entry.samples
    /\ (/\ args.recalculate /\ args.initialize
        /\ args.initialize_using.kind = "none" /\ entry.fallback # {}
        /\ Happened("get_initialization_params")) =>
            /\ err # "RuntimeError"
            /\ reads = {FallbackFolder}
            /\ model.initial_parameters # <<>>
            /\ KeysOf(model.initial_parameters[1]) = entry.fallback

\* a forced run deleted the samples directory and then read its
\* initialization from the fallback folder
C22_Witness ==
    /\ args.recalculate /\ args.initialize /\ args.initialize_using = UsingNone
    /\ entry.samples /\ entry.fallback = {"p1"}
    /\ Happened("rmtree") /\ Happened("set_initial_parameters")
    /\ disk.fallback = {"p1"}
    /\ KeysOf(model.initial_parameters[1]) = {"p1"}

\* the errors a run raises: no initialization maps found (lines 225-227), a
\* device index out of range (line 105), a failure of the processing strategy
RunErrors == {"RuntimeError", "IndexError", "StrategyError"}

(***************************************************************************)
(* C23 as stated: the orchestrator writes no volume map, and after any run *)
(* that failed (no initialization maps found, device error, strategy       *)
(* failure) the next run with recalculate = false finds the marker absent, *)
(* does not return early and takes the Fresh path.                         *)
(***************************************************************************)
C23_AsClaimed ==
    /\ (model_output_exists(disk) /\ ~model_output_exists(entry)) =>
        /\ strategy.runs = 1 /\ err = "none" /\ result = "sampled"
    /\ strategy.runs = 0 =>
        /\ disk.volume_maps \in {entry.volume_maps, {}}
        /\ disk.volume_maps # entry.volume_maps => Happened("rmtree")
    /\ (prev.error \in RunErrors /\ ~args.recalculate /\ GateDecided) =>
        /\ ~model_output_exists(entry)
        /\ ~Happened("load_samples") /\ result # "loaded"
        /\ pc \in {"output_path", "initialize", "process", "done"}

(***************************************************************************)
(* C23. The orchestrator only deletes and creates the samples directory    *)
(* and writes no volume map: the marker appears in a run only when the     *)
(* processing strategy returned. After a run that failed because no        *)
(* initialization maps were found or because the processing strategy       *)
(* failed, and after any failed run that had no marker at its start or     *)
(* deleted it, the marker is absent, and the next run with                 *)
(* recalculate = false does not return early but takes the Fresh path. A   *)
(* device error over a completed output leaves the marker, and the next    *)
(* run with recalculate = false returns the stored samples.                *)
(***************************************************************************)
C23_MarkerNotFabricated ==
    /\ (model_output_exists(disk) /\ ~model_output_exists(entry)) =>
        /\ strategy.runs = 1 /\ err = "none" /\ result = "sampled"
    /\ strategy.runs = 0 =>
        /\ disk.volume_maps \in {entry.volume_maps, {}}
        /\ disk.volume_maps # entry.volume_maps => Happened("rmtree")
    /\ (err # "none" /\ (~model_output_exists(entry) \/ Happened("rmtree"))) =>
        ~model_output_exists(disk)
    /\ prev.error \in {"RuntimeError", "StrategyError"} => prev.unmarked
    /\ (prev.failed /\ prev.unmarked /\ ~args.recalculate /\ GateDecided) =>
        /\ ~model_output_exists(entry)
        /\ ~Happened("load_samples") /\ result # "loaded"
        /\ pc \in {"output_path", "initialize", "process", "done"}
        /\ pc \in {"initialize", "process", "done"} => Happened("isdir")
    /\ (prev.error = "IndexError" /\ ~prev.unmarked /\ ~args.recalculate
            /\ GateDecided) =>
        /\ model_output_exists(entry)
        /\ Happened("load_samples") /\ result = "loaded" /\ pc = "done"
        /\ strategy.runs = 0 /\ disk = entry

\* the run before failed without a marker, and this run, not forced, has
\* passed the gate and reached the processing strategy
C23_Witness ==
    /\ prev.failed /\ prev.unmarked /\ ~args.recalculate
    /\ ~model_output_exists(entry) /\ entry.samples
    /\ pc = "process" /\ ~Happened("load_samples")

(***************************************************************************)
(* C24. A forced run over a completed output that fails because no         *)
(* initialization maps are found has already deleted the output and made   *)
(* the directory anew: it ends with the samples directory present and      *)
(* empty and the marker absent. The same failure with recalculate = false  *)
(* and no marker deletes nothing: the volume maps are those of the start.  *)
(***************************************************************************)
C24_FailedForcedRecompute ==
    /\ (args.recalculate /\ model_output_exists(entry) /\ err = "RuntimeError") =>
        /\ pc = "done" /\ result = "none"
        /\ disk.samples /\ disk.volume_maps = {} /\ ~model_output_exists(disk)
        /\ Happened("rmtree") /\ Happened("makedirs")
        /\ Before("rmtree", "makedirs")
        /\ Before("makedirs", "get_initialization_params")
    /\ (~args.recalculate /\ ~model_output_exists(entry) /\ err = "RuntimeError") =>
        /\ pc = "done" /\ result = "none"
        /\ disk.samples /\ disk.volume_maps = entry.volume_maps
        /\ ~Happened("rmtree")
        /\ entry.samples => ~Happened("makedirs")

\* the completed output is gone after the failed forced run
C24_Witness ==
    /\ args.recalculate /\ model_output_exists(entry)
    /\ err = "RuntimeError" /\ pc = "done"
    /\ disk.samples /\ disk.volume_maps = {}

(***************************************************************************)
(* What the claim about the controller speaks of.                          *)
(***************************************************************************)
\* the last call and the one before it, with the stacks before each
LastCall == ops[Len(ops)]
CallBefore == ops[Len(ops) - 1]
Stacks(r) == <<r.actions_history, r.redoable_actions>>
Top(s) == s[Len(s)]
Pop(s) == SubSeq(s, 1, Len(s) - 1)
\* what the claim says of one call, given the stacks before and after it
CallAsClaimed ==
    /\ LastCall.op \in {"add_action", "set_data"} => ctrl.redoable_actions = <<>>
    /\ LastCall.op \in {"undo", "redo"} =>
        Len(ctrl.actions_history) + Len(ctrl.redoable_actions) =
            Len(LastCall.actions_history) + Len(LastCall.redoable_actions)
    /\ (LastCall.op = "undo" /\ LastCall.actions_history # <<>>) =>
        /\ ctrl.actions_history = Pop(LastCall.actions_history)
        /\ ctrl.redoable_actions =
                Append(LastCall.redoable_actions, Top(LastCall.actions_history))
    /\ (LastCall.op = "redo" /\ LastCall.redoable_actions # <<>>) =>
        /\ ctrl.redoable_actions = Pop(LastCall.redoable_actions)
        /\ ctrl.actions_history =
                Append(LastCall.actions_history, Top(LastCall.redoable_actions))
    /\ (\/ LastCall.op = "undo" /\ LastCall.actions_history = <<>>
        \/ LastCall.op = "redo" /\ LastCall.redoable_actions = <<>>) =>
        /\ Stacks(ctrl) = Stacks(LastCall)
        /\ ctrl.new_config = 0
\* the last two calls were an undo and then a redo
UndoThenRedo ==
    /\ Len(ops) >= 2
    /\ CallBefore.op = "undo" /\ LastCall.op = "redo"

(***************************************************************************)
(* C25 as stated, of every QtController: add_action and set_data leave the *)
(* redo stack empty; undo and redo keep the sum of the two lengths and     *)
(* move the top action from one stack to the other; on an empty stack they *)
(* change nothing and emit nothing; and after every undo followed at once  *)
(* by a redo both stacks are as they were before the undo.                 *)
(***************************************************************************)
C25_AsClaimed ==
    ops # <<>> =>
        /\ CallAsClaimed
        /\ UndoThenRedo => Stacks(ctrl) = Stacks(CallBefore)

====
